---- MODULE Spec2Model ----
\* Streamlit FRED Explorer (src/app.py): the search / pick / fetch-and-plot
\* pipeline, its two st.cache_data caches and the rerun-per-interaction flow.
\*
\* Strings are sequences of one-character strings, so that strip(), split()
\* and the "id - title" option format are computed, not assumed.
EXTENDS Integers, Sequences, FiniteSets, TLC

VARIABLES pk,           \* pick block: widget inputs and the lists computed from them
          al,           \* fetch_series assembly: per-series results and the table
          sr,           \* the last fred_search call and what the search block showed
          fr,           \* the last pass of the fetch & plot block
          ui,           \* the widgets and the last script run of a session
          fred_cache,   \* st.cache_resource of get_fred: credentials with a handle
          search_cache, \* st.cache_data of fred_search
          fetch_cache   \* st.cache_data of fetch_series

vars == <<pk, al, sr, fr, ui, fred_cache, search_cache, fetch_cache>>

\* ------------------------------------------------------------------ bounds
MaxTextLen == 5         \* longest typed "Series IDs" text
MaxDate == 3            \* observation dates are 1..MaxDate

\* ------------------------------------------------------------------ strings
Range(s) == {s[i] : i \in 1..Len(s)}

Front(s) == SubSeq(s, 1, Len(s) - 1)

IsSpace(c) == c = " "

RECURSIVE LStrip(_)
LStrip(s) == IF s # <<>> /\ IsSpace(Head(s)) THEN LStrip(Tail(s)) ELSE s

RECURSIVE RStrip(_)
RStrip(s) == IF s # <<>> /\ IsSpace(s[Len(s)]) THEN RStrip(Front(s)) ELSE s

\* str.strip()
Strip(s) == RStrip(LStrip(s))

\* str.split(","): the pieces between commas, empty pieces included
RECURSIVE SplitComma(_)
SplitComma(s) ==
    IF \A i \in 1..Len(s) : s[i] # ","
    THEN <<s>>
    ELSE LET k == CHOOSE i \in 1..Len(s) : s[i] = "," /\ \A j \in 1..(i - 1) : s[j] # ","
         IN  <<SubSeq(s, 1, k - 1)>> \o SplitComma(SubSeq(s, k + 1, Len(s)))

\* the separator of an option label, " - " standing for space, dash, space
Sep == <<" ", "-", " ">>

IsPrefixAt(s, i, p) == i + Len(p) - 1 <= Len(s) /\ SubSeq(s, i, i + Len(p) - 1) = p

\* opt.split(Sep)[0]: the text before the first separator (all of it when none)
BeforeSep(s) ==
    IF \E i \in 1..Len(s) : IsPrefixAt(s, i, Sep)
    THEN LET k == CHOOSE i \in 1..Len(s) :
                    IsPrefixAt(s, i, Sep) /\ \A j \in 1..(i - 1) : ~IsPrefixAt(s, j, Sep)
         IN  SubSeq(s, 1, k - 1)
    ELSE s

\* f"{r['id']} - {r['title']}"
OptionLabel(r) == r.id \o Sep \o r.title

RECURSIVE FilterNonEmpty(_)
FilterNonEmpty(s) ==
    IF s = <<>> THEN <<>>
    ELSE IF Head(s) # <<>> THEN <<Head(s)>> \o FilterNonEmpty(Tail(s))
         ELSE FilterNonEmpty(Tail(s))

\* list(dict.fromkeys(xs)) keeping every key's last position instead
RECURSIVE DictFromKeysLast(_)
DictFromKeysLast(xs) ==
    IF xs = <<>> THEN <<>>
    ELSE IF Head(xs) \in Range(Tail(xs)) THEN DictFromKeysLast(Tail(xs))
         ELSE <<Head(xs)>> \o DictFromKeysLast(Tail(xs))

\* list(dict.fromkeys(xs)): a dict keeps a key at the place it was first inserted
RECURSIVE DictFromKeys(_)
DictFromKeys(xs) ==
    IF xs = <<>> THEN <<>>
    ELSE LET init == DictFromKeys(Front(xs))
             last == xs[Len(xs)]
         IN  IF last \in Range(init) THEN init ELSE Append(init, last)

\* ------------------------------------------------------------------ pick block
\* chosen_ids of the "Results" multiselect
SelectionIds(selection) == [i \in 1..Len(selection) |-> BeforeSep(selection[i])]

\* chosen_ids of the "Series IDs (comma-separated)" text input
StripAll(pieces) == [i \in 1..Len(pieces) |-> Strip(pieces[i])]

TypedIds(chosen_text) == FilterNonEmpty(StripAll(SplitComma(chosen_text)))

\* the pick block: results shown -> multiselect, else the text input; then Add.
\* raw is the sequence the user chose, before any de-duplication.
PickBlock(has_results, selection, chosen_text, manual_add, add_clicked) ==
    LET picked == IF has_results THEN SelectionIds(selection) ELSE TypedIds(chosen_text)
        merge  == add_clicked /\ manual_add # <<>>
    IN  [raw        |-> IF merge THEN picked \o <<Strip(manual_add)>> ELSE picked,
         chosen_ids |-> IF merge THEN DictFromKeys(picked \o <<Strip(manual_add)>>)
                        ELSE picked]

\* series_ids=list(dict.fromkeys(chosen_ids)) of the fetch & plot block
FetchIdsOf(chosen_ids) == DictFromKeys(chosen_ids)

\* ------------------------------------------------------------------ fetch_series
Dates == 1..MaxDate

\* the marker pandas puts where a series has no observation ("." from the provider
\* is the same marker)
NaN == "nan"

\* observation values, as the floats the client parses
Zero == "0.0"

Values == {Zero, "5.0"}

\* what one provider request gives: it raises, or it returns a value
Raises == [raises |-> TRUE, value |-> <<>>]

Returns(v) == [raises |-> FALSE, value |-> v]

\* a per-series result of get_series: observations <<date, value>>, dates ascending
\* and distinct, as the provider sends them
RECURSIVE SortedSeq(_)
SortedSeq(S) ==
    IF S = {} THEN <<>>
    ELSE LET m == CHOOSE x \in S : \A y \in S : x <= y
         IN  <<m>> \o SortedSeq(S \ {m})

SeriesOver(D) == {[i \in 1..Cardinality(D) |-> <<SortedSeq(D)[i], v[SortedSeq(D)[i]]>>] :
                    v \in [D -> Values]}

AllSeries == UNION {SeriesOver(D) : D \in SUBSET Dates}

SeriesDates(s) == {s[i][1] : i \in 1..Len(s)}

SeriesValue(s, d) == LET i == CHOOSE j \in 1..Len(s) : s[j][1] = d IN s[i][2]

\* pd.DataFrame()
EmptyDF == [columns |-> <<>>, index |-> <<>>, cells |-> <<>>, index_name |-> "None"]

\* df.empty: some axis has length zero
IsEmptyDF(df) == Len(df.columns) = 0 \/ Len(df.index) = 0

\* an inner join: only the dates every series has
ConcatInner(series_ids, frames) ==
    LET idx == SortedSeq({d \in Dates : \A c \in 1..Len(frames) : d \in SeriesDates(frames[c])})
    IN  [columns    |-> series_ids,
         index      |-> idx,
         cells      |-> [r \in 1..Len(idx) |->
                           [c \in 1..Len(frames) |-> SeriesValue(frames[c], idx[r])]],
         index_name |-> "Date"]

\* df = pd.concat(frames, axis=1); df.index.name = "Date": one column per frame, in
\* order, on the sorted union of the frames' date indexes, NaN where a frame has no
\* row for the date
Concat(series_ids, frames) ==
    LET idx == SortedSeq(UNION {SeriesDates(frames[c]) : c \in 1..Len(frames)})
    IN  [columns    |-> series_ids,
         index      |-> idx,
         cells      |-> [r \in 1..Len(idx) |->
                           [c \in 1..Len(frames) |->
                              IF idx[r] \in SeriesDates(frames[c])
                              THEN SeriesValue(frames[c], idx[r]) ELSE NaN]],
         index_name |-> "Date"]

\* Fred(api_key=api_key): a client handle is told apart by its credential
Fred(api_key) == [api_key |-> api_key]

\* units or None
OrNone(x) == IF x = "" THEN "None" ELSE x

\* one _fred.get_series(...) request, as the provider sees it
GetSeriesCall(client, sid, a) ==
    [op |-> "get_series", client |-> client, sid |-> sid,
     observation_start |-> a.start, observation_end |-> a.end,
     units |-> OrNone(a.units), frequency |-> OrNone(a.frequency),
     aggregation_method |-> OrNone(a.aggregation_method)]

\* the body of fetch_series. outcomes[i] is what get_series gives for series_ids[i].
\* The loop stops at the first request that raises, and the exception propagates.
FetchSeriesBody(client, a, outcomes) ==
    LET ids   == a.series_ids
        fails == {i \in 1..Len(ids) : outcomes[i].raises}
        stop  == IF fails = {} THEN Len(ids) ELSE CHOOSE i \in fails : \A j \in fails : i <= j
    IN  [raised |-> fails # {},
         calls  |-> [i \in 1..stop |-> GetSeriesCall(client, ids[i], a)],
         table  |-> IF fails # {} THEN EmptyDF
                    ELSE IF Len(ids) = 0 THEN EmptyDF
                    ELSE Concat(ids, [i \in 1..Len(ids) |-> outcomes[i].value])]

\* ------------------------------------------------------------------ idle parts
\* a part of the program a specification does not exercise stays as constructed
Idle == [phase |-> "idle"]

NoCache == <<>>

\* ------------------------------------------------------------------ SpecPick
\* the pick block and the identifier list of the fetch block, over typed texts,
\* multiselect selections and the Add input
Alphabet == {"A", "B", ",", " "}

RECURSIVE TextsOfLen(_)
TextsOfLen(n) ==
    IF n = 0 THEN {<<>>}
    ELSE {Append(t, c) : t \in TextsOfLen(n - 1), c \in Alphabet}

ChosenTexts == UNION {TextsOfLen(n) : n \in 0..MaxTextLen}

ManualAdds == {<<>>, <<" ">>, <<"A">>, <<"B", " ">>, <<"C">>, <<" ", "C">>}

\* rows of a displayed search result
ResultRows == <<[id |-> <<"A">>, title |-> <<"t">>],
                [id |-> <<"B">>, title |-> <<"x", " ", "-", " ", "y">>],
                [id |-> <<"C">>, title |-> <<"u">>]>>

ResultOptions == [i \in 1..Len(ResultRows) |-> OptionLabel(ResultRows[i])]

\* what a multiselect can hold: options in the order the user picked them, none twice
OptionSeqs == UNION {[1..n -> Range(ResultOptions)] : n \in 0..Len(ResultOptions)}

DistinctSelections == {s \in OptionSeqs : \A i, j \in 1..Len(s) : i # j => s[i] # s[j]}

PickInit ==
    /\ pk \in [phase : {"input"}, has_results : {FALSE}, selection : {<<>>},
               chosen_text : ChosenTexts, manual_add : ManualAdds, add_clicked : BOOLEAN]
              \cup
              [phase : {"input"}, has_results : {TRUE}, selection : DistinctSelections,
               chosen_text : {<<>>}, manual_add : ManualAdds, add_clicked : BOOLEAN]
    /\ al = Idle /\ sr = Idle /\ fr = Idle /\ ui = Idle
    /\ fred_cache = {} /\ search_cache = NoCache /\ fetch_cache = NoCache

\* lines 201-219 and the series_ids argument of line 228
Pick ==
    /\ pk.phase = "input"
    /\ \E p \in {PickBlock(pk.has_results, pk.selection, pk.chosen_text,
                             pk.manual_add, pk.add_clicked)} :
           pk' = [pk EXCEPT !.phase = "picked"] @@
                 [raw |-> p.raw, chosen_ids |-> p.chosen_ids,
                  series_ids |-> FetchIdsOf(p.chosen_ids)]
    /\ UNCHANGED <<al, sr, fr, ui, fred_cache, search_cache, fetch_cache>>

PickNext == Pick

SpecPick == PickInit /\ [][PickNext]_vars

\* position of the first occurrence of x in s
FirstIndex(s, x) == CHOOSE i \in 1..Len(s) : s[i] = x /\ \A j \in 1..(i - 1) : s[j] # x

\* C3: the identifier list passed to fetch holds each distinct chosen identifier
\* exactly once, in the order of its first occurrence in the chosen sequence.
C3_DedupFirstOccurrence ==
    pk.phase = "picked" =>
        /\ Range(pk.series_ids) = Range(pk.raw)
        /\ \A i, j \in 1..Len(pk.series_ids) : i # j => pk.series_ids[i] # pk.series_ids[j]
        /\ \A i, j \in 1..Len(pk.series_ids) :
              i < j => FirstIndex(pk.raw, pk.series_ids[i]) < FirstIndex(pk.raw, pk.series_ids[j])

\* the chosen sequence repeats an identifier after another one came in between, and
\* the Add input merged one more
C3_Witness ==
    /\ pk.phase = "picked"
    /\ pk.add_clicked /\ pk.manual_add # <<>>
    /\ pk.chosen_ids # pk.raw
    /\ pk.raw = <<<<"A">>, <<"B">>, <<"A">>, <<"C">>>>
    /\ pk.series_ids = <<<<"A">>, <<"B">>, <<"C">>>>

\* ------------------------------------------------------------------ SpecAlign
\* fetch_series called directly (no cache entry yet) on every combination of
\* per-series results
DefaultArgs(ids) ==
    [series_ids |-> ids, start |-> 1, end |-> MaxDate,
     units |-> "lin", frequency |-> "", aggregation_method |-> "avg"]

SeriesOutcomes == {Raises} \cup {Returns(x) : x \in AllSeries}

IdA == <<"A">>

IdB == <<"B">>

AlignIdLists == {<<>>, <<IdA>>, <<IdB>>, <<IdA, IdB>>, <<IdB, IdA>>}

AlignInit ==
    /\ al \in UNION {[phase : {"input"}, series_ids : {ids},
                      outcomes : [1..Len(ids) -> SeriesOutcomes]] : ids \in AlignIdLists}
    /\ pk = Idle /\ sr = Idle /\ fr = Idle /\ ui = Idle
    /\ fred_cache = {} /\ search_cache = NoCache /\ fetch_cache = NoCache

\* lines 128-143
Align ==
    /\ al.phase = "input"
    /\ \E r \in {FetchSeriesBody(Fred("K1"), DefaultArgs(al.series_ids), al.outcomes)} :
           al' = [al EXCEPT !.phase = "done"] @@
                 [raised |-> r.raised, calls |-> r.calls, table |-> r.table]
    /\ UNCHANGED <<pk, sr, fr, ui, fred_cache, search_cache, fetch_cache>>

AlignNext == Align

SpecAlign == AlignInit /\ [][AlignNext]_vars

AlignedOk == al.phase = "done" /\ ~al.raised /\ Len(al.series_ids) > 0

\* C4: the table of a successful fetch of distinct identifiers has as index the
\* union of all series' observation dates, ascending, each date once; one column per
\* identifier in request order; each cell the series' value on that date, or the
\* missing marker (never zero) when the series has no observation on it.
C4_OuterJoin ==
    AlignedOk =>
        LET t == al.table
            f(c) == al.outcomes[c].value
        IN  /\ Range(t.index) = UNION {SeriesDates(f(c)) : c \in 1..Len(al.series_ids)}
            /\ \A i, j \in 1..Len(t.index) : i < j => t.index[i] < t.index[j]
            /\ t.columns = al.series_ids
            /\ \A r \in 1..Len(t.index) :
                  /\ Len(t.cells[r]) = Len(t.columns)
                  /\ \A c \in 1..Len(t.columns) :
                        IF t.index[r] \in SeriesDates(f(c))
                        THEN t.cells[r][c] = SeriesValue(f(c), t.index[r])
                        ELSE t.cells[r][c] = NaN /\ t.cells[r][c] # Zero

\* the spec's example: A on {1, 2}, B on {1, 3}; three rows, two cells missing
C4_Witness ==
    /\ AlignedOk
    /\ al.series_ids = <<IdA, IdB>>
    /\ SeriesDates(al.outcomes[1].value) = {1, 2}
    /\ SeriesDates(al.outcomes[2].value) = {1, 3}
    /\ al.table.index = <<1, 2, 3>>
    /\ al.table.cells[2][2] = NaN
    /\ al.table.cells[3][1] = NaN
    /\ al.table.cells[2][1] = Zero

\* ------------------------------------------------------------------ fred_search
\* a cell of a search table: its Python type and its value
Cell(kind, v) == [kind |-> kind, v |-> v]

\* .astype(str) of one cell: a Timestamp prints with its time of day
AsStr(c) == IF c.kind = "Timestamp" /\ c.v = "2020-01-01"
            THEN Cell("str", "2020-01-01 00:00:00")
            ELSE Cell("str", c.v)

keep_cols == <<"id", "title", "frequency", "units", "seasonal_adjustment",
               "observation_start", "observation_end", "popularity">>

\* the keys of a payload row that carries no popularity
ColsNoPopularity == <<"id", "title", "frequency", "units", "seasonal_adjustment",
                     "observation_start", "observation_end">>

DateCols == {"observation_start", "observation_end"}

\* the columns the provider sends for a series, beyond keep_cols
ExtraCols == <<"realtime_start", "notes">>

\* a search table: column names in order, row labels, and per row a cell per column
NoColumnsDF == [kind |-> "DataFrame", columns |-> <<>>, index |-> <<>>, rows |-> <<>>]

\* None where a table is expected
NoneValue == [kind |-> "None", columns |-> <<>>, index |-> <<>>, rows |-> <<>>]

IsNone(df) == df.kind = "None"

\* one series as the JSON fallback sends it (dates are strings)
JsonRow(id, cols) ==
    [c \in Range(cols) |->
        IF c \in DateCols THEN Cell("str", "2020-01-01")
        ELSE IF c = "popularity" THEN Cell("int", "90")
        ELSE Cell("str", id)]

\* one series as the client library sends it (dates parsed to Timestamps)
ClientRow(id, cols) ==
    [c \in Range(cols) |->
        IF c \in DateCols THEN Cell("Timestamp", "2020-01-01")
        ELSE IF c = "popularity" THEN Cell("int", "90")
        ELSE Cell("str", id)]

\* the table the client library's search returns for these series: indexed by id
ClientFrame(ids) ==
    [kind    |-> "DataFrame",
     columns |-> keep_cols \o ExtraCols,
     index   |-> ids,
     rows    |-> [i \in 1..Len(ids) |-> ClientRow(ids[i], keep_cols \o ExtraCols)]]

\* pd.DataFrame(rows): the columns are the keys of the rows (none for no rows), the
\* index is 0..n-1. Rows here share their keys.
DataFrameOfRows(rows, cols) ==
    [kind    |-> "DataFrame",
     columns |-> IF Len(rows) = 0 THEN <<>> ELSE cols,
     index   |-> [i \in 1..Len(rows) |-> i - 1],
     rows    |-> rows]

\* payload.get("seriess", [])
Seriess(payload) == IF payload.has_seriess THEN payload.seriess ELSE <<>>

\* df[keep_cols]: KeyError unless every name is a column (TypeError on None)
ProjectRaises(df, cols) == IsNone(df) \/ ~(Range(cols) \subseteq Range(df.columns))

Project(df, cols) ==
    [kind |-> "DataFrame", columns |-> cols, index |-> df.index,
     rows |-> [i \in 1..Len(df.rows) |-> [c \in Range(cols) |-> df.rows[i][c]]]]

\* out[col] = out[col].astype(str) for the two date-bound columns
DatesAsStr(df) ==
    [df EXCEPT !.rows = [i \in 1..Len(df.rows) |->
        [c \in DOMAIN df.rows[i] |->
            IF c \in DateCols THEN AsStr(df.rows[i][c]) ELSE df.rows[i][c]]]]

\* out.reset_index(drop=True)
ResetIndex(df) == [df EXCEPT !.index = [i \in 1..Len(df.index) |-> i - 1]]

\* the primary request, as the client library sees it
PrimaryCall(query, limit) ==
    [op |-> "search", text |-> query, order_by |-> "popularity",
     sort_order |-> "desc", limit |-> limit]

\* the fallback request, as the HTTP endpoint sees it
FallbackCall(api_key, query, limit) ==
    [op |-> "http_get", url |-> "https://api.stlouisfed.org/fred/series/search",
     api_key |-> api_key, search_text |-> query, file_type |-> "json",
     limit |-> limit, order_by |-> "popularity", sort_order |-> "desc", timeout |-> 20]

\* a search that asks the fallback whatever the primary did
UseFallbackAlways(primary) == TRUE

\* except Exception: the fallback runs when the primary request raised
UseFallback(primary) == primary.raises

\* a check that lets whitespace through
IsBlankNoStrip(query) == query = <<>>

\* query.strip() is empty
IsBlank(query) == Strip(query) = <<>>

\* the body of fred_search. primary is what _fred.search gives, fallback what the
\* HTTP request gives (it raises on a transport error or a non-2xx status).
FredSearchBody(api_key, query, limit, primary, fallback) ==
    IF IsBlank(query)
    THEN [raised |-> FALSE, calls |-> <<>>, via |-> "none", table |-> NoColumnsDF]
    ELSE
    LET fb    == UseFallback(primary)
        calls == IF fb THEN <<PrimaryCall(query, limit), FallbackCall(api_key, query, limit)>>
                 ELSE <<PrimaryCall(query, limit)>>
        df    == IF fb THEN DataFrameOfRows(Seriess(fallback.value), fallback.value.cols)
                 ELSE primary.value
    IN  IF fb /\ fallback.raises
        THEN [raised |-> TRUE, calls |-> calls, via |-> "fallback", table |-> NoColumnsDF]
        ELSE IF ProjectRaises(df, keep_cols)
        THEN [raised |-> TRUE, calls |-> calls,
              via |-> IF fb THEN "fallback" ELSE "primary", table |-> NoColumnsDF]
        ELSE [raised |-> FALSE, calls |-> calls,
              via |-> IF fb THEN "fallback" ELSE "primary",
              table |-> ResetIndex(DatesAsStr(Project(df, keep_cols)))]

\* st.cache_data around fred_search: the key is the arguments whose names do not
\* start with an underscore; a raising call stores nothing
SearchKey(api_key, query, limit) == <<api_key, query, limit>>

CachedFredSearch(cache, api_key, query, limit, primary, fallback) ==
    LET k == SearchKey(api_key, query, limit)
    IN  IF k \in DOMAIN cache
        THEN [hit |-> TRUE, raised |-> FALSE, calls |-> <<>>, via |-> "cache",
              table |-> cache[k], cache |-> cache]
        ELSE LET r == FredSearchBody(api_key, query, limit, primary, fallback)
             IN  [hit |-> FALSE, raised |-> r.raised, calls |-> r.calls, via |-> r.via,
                  table |-> r.table,
                  cache |-> IF r.raised THEN cache ELSE (k :> r.table) @@ cache]

\* results_df.empty
IsEmptyTable(df) == Len(df.columns) = 0 \/ Len(df.index) = 0

\* the search block once the button is clicked and a client exists: what it shows
SearchBlock(cache, api_key, query, limit, primary, fallback) ==
    LET r == CachedFredSearch(cache, api_key, query, limit, primary, fallback)
    IN  [call       |-> r,
         results_df |-> IF r.raised THEN NoColumnsDF ELSE r.table,
         message    |-> IF r.raised THEN "error: Search failed"
                        ELSE IF IsEmptyTable(r.table) THEN "warning: No results"
                        ELSE "none"]

\* ------------------------------------------------------------------ SpecSearch
\* clicks of the Search button with a client present, over queries, limits and
\* everything the two search paths can answer
Queries == {<<>>, <<" ", " ">>, <<" ", "q">>}

Limits == {10, 50}

Payload(ids, cols) ==
    [has_seriess |-> TRUE, cols |-> cols,
     seriess |-> [i \in 1..Len(ids) |-> JsonRow(ids[i], cols)]]

PayloadNoKey == [has_seriess |-> FALSE, cols |-> <<>>, seriess |-> <<>>]

PrimaryOutcomes ==
    {Raises, Returns(NoneValue), Returns(ClientFrame(<<>>)),
     Returns(ClientFrame(<<IdA>>))}

FallbackOutcomes ==
    {Raises, Returns(PayloadNoKey), Returns(Payload(<<>>, keep_cols \o ExtraCols)),
     Returns(Payload(<<IdA>>, keep_cols \o ExtraCols)),
     Returns(Payload(<<IdA>>, ColsNoPopularity))}

\* a request that was not made has no outcome
Unused == [raises |-> FALSE, value |-> <<>>]

SearchInit ==
    /\ sr = [phase |-> "start"]
    /\ search_cache = NoCache
    /\ pk = Idle /\ al = Idle /\ fr = Idle /\ ui = Idle
    /\ fred_cache = {} /\ fetch_cache = NoCache

\* lines 190-196 with do_search true and fred_client set
SearchClick ==
    \E query \in Queries, limit \in Limits, primary \in PrimaryOutcomes,
       fallback \in FallbackOutcomes :
        \E b \in {SearchBlock(search_cache, "K1", query, limit, primary, fallback)} :
        \E np \in {Len(b.call.calls)} :
            /\ sr' = [phase |-> "done", query |-> query, limit |-> limit,
                      primary  |-> IF np >= 1 THEN primary ELSE Unused,
                      fallback |-> IF np >= 2 THEN fallback ELSE Unused,
                      hit |-> b.call.hit, raised |-> b.call.raised,
                      calls |-> b.call.calls, via |-> b.call.via,
                      results_df |-> b.results_df, message |-> b.message]
            /\ search_cache' = b.call.cache
            /\ UNCHANGED <<pk, al, fr, ui, fred_cache, fetch_cache>>

SearchNext == SearchClick

SpecSearch == SearchInit /\ [][SearchNext]_vars

SearchDone == sr.phase = "done"

AllWhitespace(q) == \A i \in 1..Len(q) : q[i] = " "

HttpCalls(calls) == {i \in 1..Len(calls) : calls[i].op = "http_get"}

ClientCalls(calls) == {i \in 1..Len(calls) : calls[i].op = "search"}

\* C7: an empty or whitespace-only query, with any limit, returns an empty table
\* and makes no network call, primary or fallback.
C7_BlankQueryNoCall ==
    (SearchDone /\ AllWhitespace(sr.query)) =>
        /\ sr.calls = <<>>
        /\ ~sr.raised
        /\ IsEmptyTable(sr.results_df)

\* a whitespace-only query went through the function body
C7_Witness ==
    /\ SearchDone /\ sr.query = <<" ", " ">> /\ ~sr.hit
    /\ sr.message = "warning: No results"

\* C8: when the primary path raises and the fallback request succeeds with zero
\* series, search returns an empty table and the user sees the "no results"
\* warning, not the "search failed" error.
C8_EmptyFallbackIsWarning ==
    (/\ SearchDone /\ Len(sr.calls) = 2
     /\ sr.primary.raises /\ ~sr.fallback.raises
     /\ Len(Seriess(sr.fallback.value)) = 0) =>
        /\ ~sr.raised
        /\ IsEmptyTable(sr.results_df)
        /\ sr.message = "warning: No results"

\* C9: for a non-blank query the fallback request is made iff the primary raised,
\* once, with the same text and limit ordered by popularity descending; a table
\* returned through it has the fixed columns, string date bounds and an index
\* 0..n-1; if the fallback fails too, search raises and nothing is retried.
C9_FallbackEquivalence ==
    (SearchDone /\ ~AllWhitespace(sr.query) /\ ~sr.hit) =>
        /\ Cardinality(ClientCalls(sr.calls)) = 1
        /\ Cardinality(HttpCalls(sr.calls)) = IF sr.primary.raises THEN 1 ELSE 0
        /\ \A i \in HttpCalls(sr.calls) :
              /\ sr.calls[i].search_text = sr.query
              /\ sr.calls[i].limit = sr.limit
              /\ sr.calls[i].order_by = "popularity"
              /\ sr.calls[i].sort_order = "desc"
        /\ (sr.via = "fallback" /\ ~sr.raised) =>
              /\ sr.results_df.columns =
                    <<"id", "title", "frequency", "units", "seasonal_adjustment",
                      "observation_start", "observation_end", "popularity">>
              /\ sr.results_df.index = [i \in 1..Len(sr.results_df.rows) |-> i - 1]
              /\ \A i \in 1..Len(sr.results_df.rows) :
                    /\ DOMAIN sr.results_df.rows[i] = Range(sr.results_df.columns)
                    /\ sr.results_df.rows[i]["observation_start"].kind = "str"
                    /\ sr.results_df.rows[i]["observation_end"].kind = "str"
        /\ (sr.primary.raises /\ sr.fallback.raises) =>
              /\ sr.raised
              /\ Len(sr.calls) = 2
              /\ sr.message = "error: Search failed"

\* the primary raised and the fallback returned a table with a row
C9_Witness ==
    /\ SearchDone /\ sr.query = <<" ", "q">> /\ sr.primary.raises
    /\ sr.via = "fallback" /\ ~sr.raised /\ Len(sr.results_df.rows) = 1
    /\ Len(sr.calls) = 2

\* ------------------------------------------------------------------ caches of the fetch path
\* st.cache_resource around get_fred: one handle per credential, kept for the process
GetFred(cache, api_key) == [client |-> Fred(api_key), cache |-> cache \cup {api_key}]

\* a key that leaves the unit code out
FetchKeyNoUnits(client, a) ==
    <<a.series_ids, a.start, a.end, a.frequency, a.aggregation_method>>

\* the st.cache_data key of fetch_series: every argument but _fred, whose leading
\* underscore keeps it out of the hash
FetchKey(client, a) ==
    <<a.series_ids, a.start, a.end, a.units, a.frequency, a.aggregation_method>>

\* a cache that stores the empty table of a raising call
StoreFailures(cache, k, r) == (k :> r.table) @@ cache

\* cache_data stores the value a call returned; a call that raised returns nothing
StoreResult(cache, k, r) == IF r.raised THEN cache ELSE (k :> r.table) @@ cache

\* st.cache_data around fetch_series
CachedFetchSeries(cache, client, a, outcomes) ==
    LET k == FetchKey(client, a)
    IN  IF k \in DOMAIN cache
        THEN [hit |-> TRUE, raised |-> FALSE, calls |-> <<>>, table |-> cache[k],
              cache |-> cache]
        ELSE LET r == FetchSeriesBody(client, a, outcomes)
             IN  [hit |-> FALSE, raised |-> r.raised, calls |-> r.calls,
                  table |-> r.table, cache |-> StoreResult(cache, k, r)]

\* ------------------------------------------------------------------ relabel and plot
\* f"{sid}: {info.title}"
Labelled(sid, title) == sid \o <<":", " ">> \o title

\* one get_series_info answer: it raises, or returns metadata with or without a title
InfoTitle(t) == Returns([has_title |-> TRUE, title |-> t])

InfoNoTitle == Returns([has_title |-> FALSE, title |-> <<>>])

\* names[sid] for one answered lookup
NameOf(sid, info) == IF info.value.has_title THEN Labelled(sid, info.value.title) ELSE sid

\* lines 238-246: one lookup per column, in order; the first that raises ends the
\* loop and names becomes the identity for every column; df.rename(columns=names)
Relabel(columns, infos) ==
    LET fails == {i \in 1..Len(columns) : infos[i].raises}
        stop  == IF fails = {} THEN Len(columns)
                 ELSE CHOOSE i \in fails : \A j \in fails : i <= j
    IN  [calls   |-> [i \in 1..stop |-> [op |-> "get_series_info", sid |-> columns[i]]],
         failed  |-> fails # {},
         columns |-> [i \in 1..Len(columns) |->
                        IF fails # {} THEN columns[i] ELSE NameOf(columns[i], infos[i])]]

\* nothing drawn, nothing to download
NoChart == [shown |-> FALSE, columns |-> <<>>]

\* the except branch of the fetch & plot block: one st.error, no chart, no download
PlotRaised(f, infos) ==
    [message |-> "error: Data fetch/plot failed", info_calls |-> <<>>,
     relabel_failed |-> FALSE, chart |-> NoChart, csv |-> NoChart]

\* lines 235-263 once fetch_series has returned or raised: f is the cached call
PlotBlock(f, infos) ==
    IF f.raised THEN PlotRaised(f, infos)
    ELSE IF IsEmptyDF(f.table)
    THEN [message |-> "warning: No observations", info_calls |-> <<>>,
          relabel_failed |-> FALSE, chart |-> NoChart, csv |-> NoChart]
    ELSE LET n == Relabel(f.table.columns, infos)
         IN  [message |-> "none", info_calls |-> n.calls, relabel_failed |-> n.failed,
              chart |-> [shown |-> TRUE, columns |-> n.columns],
              csv   |-> [shown |-> TRUE, columns |-> n.columns]]

\* ------------------------------------------------------------------ SpecFetch
\* calls of the cached fetch_series through one client: a base request and the
\* requests that differ from it in exactly one argument (for the identifier list: a
\* reordering, and the empty list)
BaseArgs ==
    [series_ids |-> <<IdA, IdB>>, start |-> 1, end |-> 3,
     units |-> "lin", frequency |-> "", aggregation_method |-> "avg"]

FetchArgsSet ==
    {BaseArgs,
     [BaseArgs EXCEPT !.series_ids = <<IdB, IdA>>],
     [BaseArgs EXCEPT !.series_ids = <<>>],
     [BaseArgs EXCEPT !.start = 2],
     [BaseArgs EXCEPT !.end = 2],
     [BaseArgs EXCEPT !.units = "pch"],
     [BaseArgs EXCEPT !.frequency = "m"],
     [BaseArgs EXCEPT !.aggregation_method = "sum"]}

\* the provider's data at two moments (the second has one more observation)
DataThen == <<<<1, "5.0">>>>

DataNow == <<<<1, "5.0">>, <<2, Zero>>>>

\* what the get_series requests of one call give: every series as it was then, every
\* series as it is now, or a failure at some position
OutcomeVectors(n) ==
    {[i \in 1..n |-> Returns(DataThen)], [i \in 1..n |-> Returns(DataNow)]}
    \cup {[i \in 1..n |-> IF i = k THEN Raises ELSE Returns(DataThen)] : k \in 1..n}

FetchInit ==
    /\ fr = [phase |-> "start", history |-> NoCache]
    /\ fetch_cache = NoCache /\ fred_cache = {}
    /\ pk = Idle /\ al = Idle /\ sr = Idle /\ ui = Idle
    /\ search_cache = NoCache

\* get_fred, then fetch_series through its cache. history remembers, per argument
\* tuple, the table the earlier successful calls returned.
FetchCall ==
    \E a \in FetchArgsSet :
    \E outcomes \in OutcomeVectors(Len(a.series_ids)) :
        \E g \in {GetFred(fred_cache, "K1")} :
        \E f \in {CachedFetchSeries(fetch_cache, g.client, a, outcomes)} :
        \E seen \in {a \in DOMAIN fr.history} :
            /\ fr' = [phase |-> "done", args |-> a, hit |-> f.hit, raised |-> f.raised,
                      calls |-> f.calls, table |-> f.table,
                      seen |-> seen,
                      seen_table |-> IF seen THEN fr.history[a] ELSE EmptyDF,
                      history |-> IF f.raised THEN fr.history
                                  ELSE (a :> f.table) @@ fr.history]
            /\ fetch_cache' = f.cache
            /\ fred_cache' = g.cache
            /\ UNCHANGED <<pk, al, sr, ui, search_cache>>

FetchNext == FetchCall

SpecFetch == FetchInit /\ [][FetchNext]_vars

\* the original C1: a call that differs from the previous call in some argument
\* issues fresh provider calls.
C1_FreshWheneverChanged ==
    [][(fr.phase = "done" /\ fr'.args # fr.args /\ fr'.args.series_ids # <<>>)
          => Len(fr'.calls) >= 1]_vars

\* C1 (amended): a call whose six arguments equal those of an earlier successful
\* call returns that call's table and issues no provider call; a call whose
\* arguments differ from those of every earlier successful call issues one
\* get_series request per identifier, in order, up to the first that fails.
C1_CacheKeyedByArguments ==
    fr.phase = "done" =>
        IF fr.seen
        THEN fr.calls = <<>> /\ ~fr.raised /\ fr.table = fr.seen_table
        ELSE /\ fr.args.series_ids # <<>> => Len(fr.calls) >= 1
             /\ ~fr.raised => Len(fr.calls) = Len(fr.args.series_ids)
             /\ \A i \in 1..Len(fr.calls) :
                   /\ fr.calls[i].op = "get_series"
                   /\ fr.calls[i].sid = fr.args.series_ids[i]
                   /\ fr.calls[i].observation_start = fr.args.start
                   /\ fr.calls[i].observation_end = fr.args.end

\* a repeat of an earlier request served from the cache while the provider's data
\* moved on, with other requests cached in between
C1_Witness ==
    /\ fr.phase = "done" /\ fr.seen /\ fr.hit
    /\ fr.table = Concat(fr.args.series_ids, <<DataThen, DataThen>>)
    /\ [fr.args EXCEPT !.units = "pch"] \in DOMAIN fr.history
    /\ fr.args.units = "lin"
    /\ Cardinality(DOMAIN fr.history) >= 3
    /\ fr.history[[fr.args EXCEPT !.units = "pch"]] # fr.table

\* ------------------------------------------------------------------ SpecPlot
\* passes of the fetch & plot block with chosen_ids non-empty and a client for the
\* credential typed in the sidebar
Credentials == {"K1", "K2"}

PlotIdLists == {<<IdA>>, <<IdA, IdB>>}

PlotSeriesOutcomes == {Raises, Returns(<<>>), Returns(DataThen)}

InfoOutcomes == {Raises, InfoTitle(<<"t">>), InfoNoTitle}

PlotInit ==
    /\ fr = [phase |-> "start", owner |-> NoCache]
    /\ fetch_cache = NoCache /\ fred_cache = {}
    /\ pk = Idle /\ al = Idle /\ sr = Idle /\ ui = Idle
    /\ search_cache = NoCache

\* lines 184-188 and 224-263. owner remembers, per argument tuple, the credential
\* of the call whose result the cache stored.
FetchAndPlot ==
    \E api_key \in Credentials, chosen_ids \in PlotIdLists :
    \E outcomes \in [1..Len(chosen_ids) -> PlotSeriesOutcomes],
       infos \in [1..Len(chosen_ids) -> InfoOutcomes] :
        \E g \in {GetFred(fred_cache, api_key)} :
        \E a \in {DefaultArgs(FetchIdsOf(chosen_ids))} :
        \E f \in {CachedFetchSeries(fetch_cache, g.client, a, outcomes)} :
        \E p \in {PlotBlock(f, infos)} :
        \E relabelled \in {p.message = "none"} :
            /\ fr' = [phase |-> "done", api_key |-> api_key, args |-> a,
                      hit |-> f.hit, raised |-> f.raised, calls |-> f.calls,
                      table |-> f.table, message |-> p.message,
                      chart |-> p.chart, csv |-> p.csv, info_calls |-> p.info_calls,
                      relabelled |-> relabelled,
                      infos |-> IF relabelled THEN infos ELSE <<>>,
                      prior_owner |-> IF a \in DOMAIN fr.owner THEN fr.owner[a] ELSE "none",
                      owner |-> IF f.hit \/ f.raised THEN fr.owner
                                ELSE (a :> api_key) @@ fr.owner]
            /\ fetch_cache' = f.cache
            /\ fred_cache' = g.cache
            /\ UNCHANGED <<pk, al, sr, ui, search_cache>>

PlotNext == FetchAndPlot

SpecPlot == PlotInit /\ [][PlotNext]_vars

PlotDone == fr.phase = "done"

\* C2: once a fetch made through the client of one credential is cached, a fetch
\* with the same identifiers, dates and codes made through the client of another
\* credential is not answered from that entry: it issues its own provider calls
\* through its own client.
C2_CacheKeyedByClient ==
    (PlotDone /\ fr.prior_owner # "none" /\ fr.prior_owner # fr.api_key) =>
        /\ ~fr.hit
        /\ Len(fr.calls) >= 1
        /\ \A i \in 1..Len(fr.calls) : fr.calls[i].client = Fred(fr.api_key)

BareAt(i) == fr.chart.columns[i] = fr.table.columns[i]

Mixed == \E i, j \in 1..Len(fr.chart.columns) : BareAt(i) /\ ~BareAt(j)

AnyLookupRaises == \E i \in 1..Len(fr.infos) : fr.infos[i].raises

\* the original C5: a failing lookup leaves every column bare, and a table with
\* some columns labelled and others bare is never produced.
C5_NeverMixed ==
    (PlotDone /\ fr.relabelled) =>
        /\ AnyLookupRaises => \A i \in 1..Len(fr.chart.columns) : BareAt(i)
        /\ ~Mixed

\* C5, the part the relabel block does meet: if the title lookup raises for any
\* column, whatever its position, all columns of the rendered and exported table
\* keep their bare identifiers; a table with labelled and bare columns side by side
\* comes only from lookups that all returned, one of them metadata without a title.
C5_RaisingLookupAllBare ==
    (PlotDone /\ fr.relabelled) =>
        /\ fr.csv.columns = fr.chart.columns
        /\ Len(fr.chart.columns) = Len(fr.table.columns)
        /\ AnyLookupRaises => \A i \in 1..Len(fr.chart.columns) : BareAt(i)
        /\ Mixed => /\ ~AnyLookupRaises
                    /\ \E i \in 1..Len(fr.infos) : ~fr.infos[i].value.has_title

\* the second lookup raised after the first had returned a title
C5_Witness ==
    /\ PlotDone /\ fr.relabelled
    /\ Len(fr.infos) = 2
    /\ ~fr.infos[1].raises /\ fr.infos[1].value.has_title
    /\ fr.infos[2].raises
    /\ Len(fr.info_calls) = 2
    /\ fr.chart.columns = <<IdA, IdB>>

\* C6: when the observation request fails for any identifier, the fetch produces
\* no table: one error is shown, nothing is charted or exported, nothing is stored
\* in the fetch cache, and the same fetch repeated issues provider calls again.
C6_AbortAll ==
    [][/\ (fr'.phase = "done" /\ fr'.raised) =>
            /\ fr'.message = "error: Data fetch/plot failed"
            /\ ~fr'.chart.shown /\ ~fr'.csv.shown
            /\ fr'.info_calls = <<>>
            /\ fetch_cache' = fetch_cache
            /\ FetchKey(Fred(fr'.api_key), fr'.args) \notin DOMAIN fetch_cache'
       /\ (fr.phase = "done" /\ fr.raised /\ fr'.args = fr.args) =>
            Len(fr'.calls) >= 1]_vars

\* the second identifier failed after the first had been fetched, with another
\* request already cached
C6_Witness ==
    /\ PlotDone /\ fr.raised
    /\ Len(fr.args.series_ids) = 2 /\ Len(fr.calls) = 2
    /\ DOMAIN fetch_cache # {}

\* ------------------------------------------------------------------ SpecUI
\* one browser session: every interaction changes one widget or clicks one button
\* and the script then runs from top to bottom. A button reads true only in the run
\* its click triggers; a widget that a run does not render loses its value. The
\* sidebar options and the limit slider stay at their defaults.
UIKeys == {"", "K1"}

UIQueries == {<<>>, <<"q">>}

UITexts == {<<>>, <<"A">>, <<"A", ",", "B">>}

UIAdds == {<<>>, <<"B">>}

UIPrimary == {Raises, Returns(ClientFrame(<<IdA, IdB>>)), Returns(ClientFrame(<<>>))}

UIFallback == {Raises, Returns(Payload(<<IdA>>, keep_cols \o ExtraCols))}

\* the most identifiers one run can fetch: the typed ones and the added one
MaxFetched == 2

\* per position, what get_series and get_series_info answer in one run: all of
\* them return, or the one at position k raises
UISeriesVectors ==
    {[i \in 1..MaxFetched |-> Returns(DataThen)]}
    \cup {[i \in 1..MaxFetched |-> IF i = k THEN Raises ELSE Returns(DataThen)] :
            k \in 1..MaxFetched}

UIInfoVectors ==
    {[i \in 1..MaxFetched |-> InfoTitle(<<"t">>)]}
    \cup {[i \in 1..MaxFetched |-> IF i = k THEN Raises ELSE InfoTitle(<<"t">>)] :
            k \in 1..MaxFetched}

\* the option labels of a displayed result table
OptionsOf(df) ==
    [i \in 1..Len(df.rows) |->
        OptionLabel([id |-> df.rows[i]["id"].v, title |-> df.rows[i]["title"].v])]

\* values a multiselect over these options can take
SelectionsOver(options) ==
    {s \in UNION {[1..n -> Range(options)] : n \in 0..Len(options)} :
        \A i, j \in 1..Len(s) : i # j => s[i] # s[j]}

\* the sidebar defaults and empty inputs of a fresh session (lines 150-180, 208, 213)
FreshWidgets ==
    [api_key |-> "", query |-> <<>>, limit |-> 50, chosen_text |-> <<>>,
     manual_add |-> <<>>, selection |-> <<>>, options |-> <<>>,
     multiselect_shown |-> FALSE, text_shown |-> TRUE]

\* lines 182-199 of one run: the client, and the search block when Search was
\* clicked and a client exists
RunSearch(w, do_search, o) ==
    IF do_search /\ w.api_key # ""
    THEN LET sb == SearchBlock(search_cache, w.api_key, w.query, w.limit,
                               o.primary, o.fallback)
         IN  [results_df |-> sb.results_df, message |-> sb.message,
              cache |-> sb.call.cache]
    ELSE [results_df |-> NoColumnsDF, message |-> "none", cache |-> search_cache]

\* lines 201-219 of one run. The multiselect keeps its value only while it is
\* rendered with its options; the text input only while it is rendered.
RunPick(w, results_df, add_clicked) ==
    LET has_results == ~IsEmptyTable(results_df)
        options     == IF has_results THEN OptionsOf(results_df) ELSE <<>>
        selection   == IF has_results /\ w.multiselect_shown /\ w.options = options
                       THEN w.selection ELSE <<>>
        chosen_text == IF ~has_results /\ w.text_shown THEN w.chosen_text ELSE <<>>
    IN  [has_results |-> has_results, options |-> options, selection |-> selection,
         chosen_text |-> chosen_text,
         merged |-> add_clicked /\ w.manual_add # <<>>,
         picked |-> PickBlock(has_results, selection, chosen_text, w.manual_add,
                              add_clicked)]

\* lines 184-188 and 224-265 of one run
RunFetch(w, chosen_ids, o) ==
    IF chosen_ids # <<>> /\ w.api_key # ""
    THEN LET g == GetFred(fred_cache, w.api_key)
             a == DefaultArgs(FetchIdsOf(chosen_ids))
             f == CachedFetchSeries(fetch_cache, g.client, a, o.outcomes)
             pl == PlotBlock(f, o.infos)
         IN  [fetched |-> TRUE, series_ids |-> a.series_ids, message |-> pl.message,
              chart |-> pl.chart, cache |-> f.cache]
    ELSE [fetched |-> FALSE, series_ids |-> <<>>, message |-> "info: use the search",
          chart |-> NoChart, cache |-> fetch_cache]

\* what one run leaves behind: the widgets it rendered, what it showed, the caches
RunResult(w, do_search, add_clicked, s, p, f) ==
    [widgets |-> [w EXCEPT !.selection = p.selection, !.options = p.options,
                           !.chosen_text = p.chosen_text,
                           !.multiselect_shown = p.has_results,
                           !.text_shown = ~p.has_results],
     run |-> [do_search |-> do_search, add_clicked |-> add_clicked,
              search_message |-> s.message,
              has_results |-> p.has_results,
              chosen_ids |-> p.picked.chosen_ids,
              merged |-> p.merged,
              fetched |-> f.fetched,
              series_ids |-> f.series_ids,
              fetch_message |-> f.message,
              chart |-> f.chart],
     fred_cache   |-> IF w.api_key # "" THEN GetFred(fred_cache, w.api_key).cache
                      ELSE fred_cache,
     search_cache |-> s.cache,
     fetch_cache  |-> f.cache]

\* the answers the search block of a run may meet; none when it makes no request
SearchOracles(searching) ==
    [primary : IF searching THEN UIPrimary ELSE {Raises},
     fallback : IF searching THEN UIFallback ELSE {Raises}]

\* the answers the fetch & plot block of a run may meet
FetchOracles(fetching) ==
    IF fetching THEN [outcomes : UISeriesVectors, infos : UIInfoVectors]
    ELSE [outcomes : {<<>>}, infos : {<<>>}]

\* the interaction act on widgets w, then one run of the script (lines 146-265)
\* with the two button flags
Interact(act, w, do_search, add_clicked) ==
    \E so \in SearchOracles(do_search /\ w.api_key # "") :
    \E s \in {RunSearch(w, do_search, so)} :
    \E p \in {RunPick(w, s.results_df, add_clicked)} :
    \E fo \in FetchOracles(p.picked.chosen_ids # <<>> /\ w.api_key # "") :
    \E f \in {RunFetch(w, p.picked.chosen_ids, fo)} :
    \E r \in {RunResult(w, do_search, add_clicked, s, p, f)} :
        /\ ui' = [phase |-> "ran", act |-> act, widgets |-> r.widgets, run |-> r.run]
        /\ fred_cache' = r.fred_cache
        /\ search_cache' = r.search_cache
        /\ fetch_cache' = r.fetch_cache
        /\ UNCHANGED <<pk, al, sr, fr>>

NoAct == [kind |-> "load", value |-> <<>>]

UIInit ==
    /\ ui = [phase |-> "new", act |-> NoAct, widgets |-> FreshWidgets,
             run |-> [do_search |-> FALSE, add_clicked |-> FALSE,
                      search_message |-> "none", has_results |-> FALSE,
                      chosen_ids |-> <<>>, merged |-> FALSE, fetched |-> FALSE,
                      series_ids |-> <<>>, fetch_message |-> "info: use the search",
                      chart |-> NoChart]]
    /\ fred_cache = {} /\ search_cache = NoCache /\ fetch_cache = NoCache
    /\ pk = Idle /\ al = Idle /\ sr = Idle /\ fr = Idle

\* the user types a credential into the sidebar
SetApiKey ==
    \E k \in UIKeys :
        /\ k # ui.widgets.api_key
        /\ Interact([kind |-> "api_key", value |-> <<>>],
                    [ui.widgets EXCEPT !.api_key = k], FALSE, FALSE)

\* the user types keywords
TypeQuery ==
    \E q \in UIQueries :
        /\ q # ui.widgets.query
        /\ Interact([kind |-> "query", value |-> <<>>],
                    [ui.widgets EXCEPT !.query = q], FALSE, FALSE)

\* the user clicks Search
ClickSearch == Interact([kind |-> "search", value |-> <<>>], ui.widgets, TRUE, FALSE)

\* the user picks series in the "Results" multiselect the last run rendered
Select ==
    /\ ui.widgets.multiselect_shown
    /\ \E s \in SelectionsOver(ui.widgets.options) :
          /\ s # ui.widgets.selection
          /\ Interact([kind |-> "select", value |-> s],
                      [ui.widgets EXCEPT !.selection = s], FALSE, FALSE)

\* the user types into "Series IDs (comma-separated)", which the last run rendered
TypeChosenText ==
    /\ ui.widgets.text_shown
    /\ \E t \in UITexts :
          /\ t # ui.widgets.chosen_text
          /\ Interact([kind |-> "chosen_text", value |-> <<>>],
                      [ui.widgets EXCEPT !.chosen_text = t], FALSE, FALSE)

\* the user types into "Add series ID"
TypeManualAdd ==
    \E m \in UIAdds :
        /\ m # ui.widgets.manual_add
        /\ Interact([kind |-> "manual_add", value |-> <<>>],
                    [ui.widgets EXCEPT !.manual_add = m], FALSE, FALSE)

\* the user clicks Add
ClickAdd == Interact([kind |-> "add", value |-> <<>>], ui.widgets, FALSE, TRUE)

UINext ==
    \/ SetApiKey
    \/ TypeQuery
    \/ ClickSearch
    \/ Select
    \/ TypeChosenText
    \/ TypeManualAdd
    \/ ClickAdd

SpecUI == UIInit /\ [][UINext]_vars

\* C10: an identifier selected from the search results is in the identifier list
\* of the fetch of the run that the selection triggers, and an identifier merged in
\* with the Add button stays in the identifier list on the later runs, until the
\* user removes it (by changing the Add input or the credential).
C10_SelectionAndAddReachFetch ==
    [][/\ (ui'.act.kind = "select") =>
            \A i \in 1..Len(ui'.act.value) :
                /\ ui'.run.fetched
                /\ BeforeSep(ui'.act.value[i]) \in Range(ui'.run.series_ids)
       /\ (/\ ui.run.merged /\ ui.run.fetched
           /\ ui'.act.kind \notin {"manual_add", "api_key"}) =>
            /\ ui'.run.fetched
            /\ Strip(ui.widgets.manual_add) \in Range(ui'.run.series_ids)]_vars

====
